---- MODULE Spec2Model ----
(***************************************************************************)
(* StickerColorLibrary (colorlib.py): the Colors class, a pool of          *)
(* (weight, RGBA) entries held in the list self._colors, and the           *)
(* operations that derive new pools from it.                               *)
(*                                                                         *)
(* A color is a 4-tuple <<r, g, b, a>>; an entry is a pair                  *)
(* <<weight, color>>, as the tuples (v, k) of the source.  Python objects  *)
(* and Python lists are references: objs maps every Colors object to the   *)
(* list its _colors attribute refers to, lists holds each list's content.  *)
(***************************************************************************)
EXTENDS Integers, Sequences, FiniteSets

VARIABLES
    lists,   \* heap of Python lists: list id -> sequence of entries
    objs,    \* heap of Colors objects: object id -> list id of its _colors
    made,    \* per object: the call that returned it (method, receiver, arguments)
    call     \* the most recent call: its number, method, receiver, arguments, outcome

vars == <<lists, objs, made, call>>

(***************************************************************************)
(* Bounds of the model.                                                    *)
(***************************************************************************)
MaxCalls == 3       \* calls made in one run, the constructor's included
MaxStickers == 2    \* length of the stickers list given to the constructor
MaxK == 2           \* largest k_clusters tried

\* Colors the quantizer can report.  Alpha 230, saturation 20 and value 20
\* are the thresholds tried below, so each feature has an entry exactly on a
\* threshold, one above and one below.
\*   <<255,204,204,255>>  saturation 20 in exact arithmetic, below 20 as a float
\*   <<50,40,40,230>>     alpha 230, saturation 20.0, value 19.6
\*   <<51,51,51,0>>       alpha 0, saturation 0, value 20.0
Palette == { <<255, 204, 204, 255>>, <<50, 40, 40, 230>>, <<51, 51, 51, 0>> }

\* Pixel counts the quantizer can report for one color of one sticker.
Counts == {1, 2}

\* Values of the quantize argument (at most that many colors per sticker).
Quantizes == {1, 2}

\* Thresholds passed to the filters.
Thresholds == {20, 230}

\* Cluster centers the clustering step can return, in halves of a channel
\* unit (<<101, 0, 0, 510>> is the float point (50.5, 0.0, 0.0, 255.0)).
Centers == { <<101, 0, 0, 510>>, <<103, 102, 102, 1>> }

\* Widths passed to show().
Widths == {2, 1024}

(***************************************************************************)
(* Python built-ins used by the source.                                    *)
(***************************************************************************)
Max2(a, b) == IF a >= b THEN a ELSE b
Min2(a, b) == IF a <= b THEN a ELSE b

\* Tuple comparison of two colors (lexicographic, as Python compares tuples).
ColorLT(c, d) ==
    \E i \in 1..4 : c[i] < d[i] /\ \A j \in 1..(i - 1) : c[j] = d[j]

\* Tuple comparison of two entries (weight, color).
EntryLT(e, f) == e[1] < f[1] \/ (e[1] = f[1] /\ ColorLT(e[2], f[2]))

RECURSIVE InsertAscending(_, _)
InsertAscending(e, s) ==
    IF s = <<>> THEN <<e>>
    ELSE IF EntryLT(e, Head(s)) THEN <<e>> \o s
    ELSE <<Head(s)>> \o InsertAscending(e, Tail(s))

RECURSIVE sorted_ascending(_)
sorted_ascending(s) ==
    IF s = <<>> THEN <<>> ELSE InsertAscending(Head(s), sorted_ascending(Tail(s)))

RECURSIVE InsertDescending(_, _)
InsertDescending(e, s) ==
    IF s = <<>> THEN <<e>>
    ELSE IF EntryLT(Head(s), e) THEN <<e>> \o s
    ELSE <<Head(s)>> \o InsertDescending(e, Tail(s))

RECURSIVE SortDescending(_)
SortDescending(s) ==
    IF s = <<>> THEN <<>> ELSE InsertDescending(Head(s), SortDescending(Tail(s)))

\* sorted(..., reverse=True) and list.sort(reverse=True) on a list of entries.
sorted_reverse(s) == SortDescending(s)

\* round() of a float given in halves: Python rounds a half to the even integer.
round(h) ==
    IF h % 2 = 0 THEN h \div 2
    ELSE IF ((h - 1) \div 2) % 2 = 0 THEN (h - 1) \div 2
    ELSE (h + 1) \div 2

(***************************************************************************)
(* rgb_to_hsv.  A float result is kept as the exact fraction num/den plus  *)
(* the flag below, TRUE when IEEE double arithmetic returns a value just   *)
(* under that fraction.  SatBelow lists the (max, min) channel pairs       *)
(* whose exact saturation is a whole number while                          *)
(* ((max/255 - min/255) / (max/255)) * 100 evaluates below it.  The value  *)
(* (max/255) * 100 is never below a whole number it equals exactly.  The   *)
(* hue is not read by any method of Colors and is left out.                *)
(***************************************************************************)
SatBelow == {
    <<44,11>>, <<44,33>>, <<50,5>>, <<50,13>>, <<50,17>>, <<50,21>>,
    <<50,33>>, <<50,35>>, <<50,37>>, <<50,39>>, <<50,41>>, <<50,43>>,
    <<50,45>>, <<50,47>>, <<50,49>>, <<52,39>>, <<60,15>>, <<60,27>>,
    <<60,33>>, <<60,39>>, <<60,45>>, <<60,51>>, <<60,57>>, <<65,39>>,
    <<65,52>>, <<68,51>>, <<70,7>>, <<75,33>>, <<75,66>>, <<76,57>>,
    <<84,63>>, <<85,51>>, <<85,68>>, <<88,22>>, <<88,66>>, <<100,10>>,
    <<100,26>>, <<100,34>>, <<100,35>>, <<100,42>>, <<100,43>>,
    <<100,45>>, <<100,47>>, <<100,55>>, <<100,57>>, <<100,61>>,
    <<100,63>>, <<100,66>>, <<100,67>>, <<100,70>>, <<100,71>>,
    <<100,74>>, <<100,75>>, <<100,78>>, <<100,79>>, <<100,82>>,
    <<100,83>>, <<100,86>>, <<100,87>>, <<100,90>>, <<100,91>>,
    <<100,94>>, <<100,95>>, <<100,98>>, <<100,99>>, <<104,78>>,
    <<116,87>>, <<120,30>>, <<120,54>>, <<120,66>>, <<120,78>>,
    <<120,90>>, <<120,102>>, <<120,114>>, <<125,55>>, <<125,70>>,
    <<125,90>>, <<125,95>>, <<125,110>>, <<125,115>>, <<125,120>>,
    <<130,78>>, <<130,91>>, <<130,104>>, <<130,117>>, <<136,102>>,
    <<140,14>>, <<150,63>>, <<150,66>>, <<150,132>>, <<150,141>>,
    <<152,114>>, <<155,124>>, <<165,132>>, <<168,126>>, <<170,102>>,
    <<170,119>>, <<170,136>>, <<170,153>>, <<172,43>>, <<175,21>>,
    <<175,98>>, <<175,126>>, <<175,133>>, <<175,140>>, <<176,44>>,
    <<176,132>>, <<185,148>>, <<195,156>>, <<200,20>>, <<200,52>>,
    <<200,68>>, <<200,70>>, <<200,84>>, <<200,86>>, <<200,90>>,
    <<200,94>>, <<200,110>>, <<200,114>>, <<200,122>>, <<200,126>>,
    <<200,132>>, <<200,134>>, <<200,140>>, <<200,142>>, <<200,148>>,
    <<200,150>>, <<200,156>>, <<200,158>>, <<200,164>>, <<200,166>>,
    <<200,172>>, <<200,174>>, <<200,180>>, <<200,182>>, <<200,188>>,
    <<200,190>>, <<200,196>>, <<200,198>>, <<208,156>>, <<210,21>>,
    <<210,189>>, <<215,172>>, <<225,90>>, <<225,99>>, <<225,126>>,
    <<225,180>>, <<225,189>>, <<225,198>>, <<225,207>>, <<225,216>>,
    <<232,174>>, <<235,141>>, <<235,188>>, <<236,59>>, <<240,60>>,
    <<240,108>>, <<240,132>>, <<240,156>>, <<240,180>>, <<240,204>>,
    <<240,228>>, <<250,35>>, <<250,85>>, <<250,105>>, <<250,110>>,
    <<250,115>>, <<250,140>>, <<250,165>>, <<250,180>>, <<250,190>>,
    <<250,205>>, <<250,215>>, <<250,220>>, <<250,230>>, <<250,240>>,
    <<250,245>>, <<255,204>> }

rgb_to_hsv(r, g, b) ==
    LET maxc == Max2(r, Max2(g, b))
        minc == Min2(r, Min2(g, b))
    IN  [ s |-> IF minc = maxc
                THEN [num |-> 0, den |-> 1, below |-> FALSE]
                ELSE [num |-> (maxc - minc) * 100, den |-> maxc,
                      below |-> <<maxc, minc>> \in SatBelow],
          v |-> [num |-> maxc * 100, den |-> 255, below |-> FALSE] ]

\* float >= int
FloatGE(f, t) == f.num > t * f.den \/ (f.num = t * f.den /\ ~f.below)

\* int >= int, the alpha channel as a float record for uniformity
IntAsFloat(n) == [num |-> n, den |-> 1, below |-> FALSE]

(***************************************************************************)
(* Inputs of the constructor.  A sticker is given by what                  *)
(* sticker_img.quantize(quantize).convert("RGBA").getcolors() returns for  *)
(* it: a list of (count, color) pairs, one per distinct color, at most     *)
(* quantize of them.                                                       *)
(***************************************************************************)
StickerColors(quantize) ==
    { s \in UNION { [1..n -> Counts \X Palette] : n \in 1..quantize } :
        \A i, j \in DOMAIN s : i # j => s[i][2] # s[j][2] }

StickerLists(quantize) ==
    UNION { [1..n -> StickerColors(quantize)] : n \in 0..MaxStickers }

(***************************************************************************)
(* Colors.__init__: the dict aggregate_colors is a sequence of <<key,      *)
(* value>> pairs in insertion order, as a Python dict iterates.            *)
(***************************************************************************)
DictHas(d, k) == \E i \in DOMAIN d : d[i][1] = k

\* aggregate_colors[k] = n, losing what was counted before
aggregate_overwrite(d, k, n) ==
    IF DictHas(d, k)
    THEN [i \in DOMAIN d |-> IF d[i][1] = k THEN <<k, n>> ELSE d[i]]
    ELSE Append(d, <<k, n>>)

\* if not k in aggregate_colors: aggregate_colors[k] = 0
\* aggregate_colors[k] += n
aggregate_add(d, k, n) ==
    IF DictHas(d, k)
    THEN [i \in DOMAIN d |-> IF d[i][1] = k THEN <<k, d[i][2] + n>> ELSE d[i]]
    ELSE Append(d, <<k, 0 + n>>)

\* for color in sticker_colors: ...
RECURSIVE aggregate_sticker(_, _)
aggregate_sticker(d, sticker_colors) ==
    IF sticker_colors = <<>> THEN d
    ELSE aggregate_sticker(
             aggregate_add(d, Head(sticker_colors)[2], Head(sticker_colors)[1]),
             Tail(sticker_colors))

\* for sticker in stickers: ...
RECURSIVE aggregate_stickers(_, _)
aggregate_stickers(d, stickers) ==
    IF stickers = <<>> THEN d
    ELSE aggregate_stickers(aggregate_sticker(d, Head(stickers)), Tail(stickers))

\* [(v, k) for k, v in aggregate_colors.items()]
dict_items_vk(d) == [i \in DOMAIN d |-> <<d[i][2], d[i][1]>>]

init_colors(stickers) ==
    sorted_reverse(dict_items_vk(aggregate_stickers(<<>>, stickers)))

(***************************************************************************)
(* Records of calls.                                                       *)
(***************************************************************************)
Made(op, self, threshold, remove, invert, k) ==
    [op |-> op, self |-> self, threshold |-> threshold, remove |-> remove,
     invert |-> invert, k |-> k]

Call(n, op, self, none, stickers, result, ret, color_width) ==
    [n |-> n, op |-> op, self |-> self, none |-> none, stickers |-> stickers,
     result |-> result, ret |-> ret, color_width |-> color_width]

\* color_obj = Colors(); color_obj._colors = colors: a new Colors object
\* whose _colors is a new list holding colors.
NewObject(colors, m, c) ==
    /\ call.n < MaxCalls
    /\ lists' = Append(lists, colors)
    /\ objs' = Append(objs, Len(lists) + 1)
    /\ made' = Append(made, m)
    /\ call' = c

\* The state after Colors(), stickers == None: the color list is created empty.
init_none ==
    /\ lists = << <<>> >>
    /\ objs = <<1>>
    /\ made = << Made("__init__", 0, 0, FALSE, FALSE, 0) >>
    /\ call = Call(1, "__init__", 0, TRUE, <<>>, "ok", 1, 0)

\* The state after Colors(stickers, quantize).
init_stickers ==
    \E quantize \in Quantizes : \E stickers \in StickerLists(quantize) :
        /\ lists = << init_colors(stickers) >>
        /\ objs = <<1>>
        /\ made = << Made("__init__", 0, 0, FALSE, FALSE, 0) >>
        /\ call = Call(1, "__init__", 0, FALSE, stickers, "ok", 1, 0)

Init == init_none \/ init_stickers

\* self._colors of object o
colors_of(o) == lists[objs[o]]

(***************************************************************************)
(* Projections.                                                            *)
(***************************************************************************)
weights(o) == [i \in DOMAIN colors_of(o) |-> colors_of(o)[i][1]]
rgb_colors(o) == [i \in DOMAIN colors_of(o) |-> SubSeq(colors_of(o)[i][2], 1, 3)]
rgba_colors(o) == [i \in DOMAIN colors_of(o) |-> colors_of(o)[i][2]]

\* A call that raises: no object is returned, the heap is as it was.
Raise(op, self, error) ==
    /\ call.n < MaxCalls
    /\ call' = Call(call.n + 1, op, self, TRUE, <<>>, error, 0, 0)
    /\ UNCHANGED <<lists, objs, made>>

\* Colors.copy: colors_cp._colors = self._colors.copy()
copy ==
    \E self \in DOMAIN objs :
        NewObject(colors_of(self), Made("copy", self, 0, FALSE, FALSE, 0),
                  Call(call.n + 1, "copy", self, TRUE, <<>>, "ok", Len(objs) + 1, 0))

(***************************************************************************)
(* Colors.run_kmeans.  KMeans(...).fit(points) is the external clustering  *)
(* step: it raises ValueError when there are fewer points than clusters    *)
(* (an empty pool included); otherwise it returns labels_, one label in    *)
(* 0..k_clusters-1 per point, and cluster_centers_, k_clusters float       *)
(* points.                                                                 *)
(***************************************************************************)
KClusters == 1..MaxK

\* counts = [0] * k_clusters; for i in labels_: counts[i] += 1   (skipping label 0)
label_counts_skip(labels, k_clusters) ==
    [c \in 1..k_clusters |->
        Cardinality({ i \in DOMAIN labels : labels[i] = c - 1 /\ c > 1 })]

\* counts = [0] * k_clusters; for i in labels_: counts[i] += 1
\* (Python index i is position i + 1 here)
label_counts(labels, k_clusters) ==
    [c \in 1..k_clusters |->
        Cardinality({ i \in DOMAIN labels : labels[i] = c - 1 })]

\* (round(color[0]), round(color[1]), round(color[2]), round(color[3]))
round_center(color) ==
    <<round(color[1]), round(color[2]), round(color[3]), round(color[4])>>

\* the same loop, emitting only the clusters that received a point
RECURSIVE kmeans_colors_nonempty(_, _)
kmeans_colors_nonempty(counts, cluster_centers) ==
    IF counts = <<>> \/ cluster_centers = <<>> THEN <<>>
    ELSE (IF Head(counts) = 0 THEN <<>>
          ELSE << <<Head(counts), round_center(Head(cluster_centers))>> >>)
         \o kmeans_colors_nonempty(Tail(counts), Tail(cluster_centers))

\* for count, color in zip(counts, kmeans.cluster_centers_):
\*     colors.append((count, (r, g, b, a)))
RECURSIVE kmeans_colors(_, _)
kmeans_colors(counts, cluster_centers) ==
    IF counts = <<>> \/ cluster_centers = <<>> THEN <<>>
    ELSE << <<Head(counts), round_center(Head(cluster_centers))>> >>
         \o kmeans_colors(Tail(counts), Tail(cluster_centers))

run_kmeans_ok ==
    \E self \in DOMAIN objs : \E k_clusters \in KClusters :
        /\ Len(rgba_colors(self)) >= k_clusters
        /\ \E labels \in [DOMAIN rgba_colors(self) -> 0..(k_clusters - 1)] :
           \E cluster_centers \in [1..k_clusters -> Centers] :
              NewObject(
                  sorted_reverse(
                      kmeans_colors(label_counts(labels, k_clusters), cluster_centers)),
                  Made("run_kmeans", self, 0, FALSE, FALSE, k_clusters),
                  Call(call.n + 1, "run_kmeans", self, TRUE, <<>>, "ok", Len(objs) + 1, 0))

run_kmeans_error ==
    \E self \in DOMAIN objs : \E k_clusters \in KClusters :
        /\ Len(rgba_colors(self)) < k_clusters
        /\ Raise("run_kmeans", self, "ValueError")

run_kmeans == run_kmeans_ok \/ run_kmeans_error

(***************************************************************************)
(* The three filters.  Each reads one feature of an entry and compares it  *)
(* with the threshold; the partition and the reattachment are the same     *)
(* code in the three methods.                                              *)
(***************************************************************************)
\* color[1][3], rgb_to_hsv(*color[1][:3])[1], rgb_to_hsv(*color[1][:3])[2]
feature(filter, entry) ==
    IF filter = "filter_transparency" THEN IntAsFloat(entry[2][4])
    ELSE IF filter = "filter_saturation"
         THEN rgb_to_hsv(entry[2][1], entry[2][2], entry[2][3]).s
         ELSE rgb_to_hsv(entry[2][1], entry[2][2], entry[2][3]).v

\* if feature > threshold   (the boundary rejected)
is_approved_strict(filter, entry, threshold) ==
    LET f == feature(filter, entry) IN f.num > threshold * f.den

\* if feature >= threshold
is_approved(filter, entry, threshold) ==
    FloatGE(feature(filter, entry), threshold)

\* for color in self._colors: approved_colors.append(color) or
\* reject_colors.append(color); the result is <<approved_colors, reject_colors>>
RECURSIVE partition(_, _, _)
partition(filter, colors, threshold) ==
    IF colors = <<>> THEN << <<>>, <<>> >>
    ELSE LET rest == partition(filter, Tail(colors), threshold)
         IN  IF is_approved(filter, Head(colors), threshold)
             THEN << <<Head(colors)>> \o rest[1], rest[2] >>
             ELSE << rest[1], <<Head(colors)>> \o rest[2] >>

\* the reattachment with the rejected colors dropped whatever remove says
reattach_dropping(approved_colors, reject_colors, remove, invert) ==
    IF ~invert THEN approved_colors ELSE reject_colors

\* the reattachment with invert ignored
reattach_no_invert(approved_colors, reject_colors, remove, invert) ==
    approved_colors \o (IF ~remove THEN reject_colors ELSE <<>>)

\* the reattachment followed by a sort by descending weight
reattach_sorted(approved_colors, reject_colors, remove, invert) ==
    sorted_reverse(
        IF ~invert
        THEN approved_colors \o (IF ~remove THEN reject_colors ELSE <<>>)
        ELSE reject_colors \o (IF ~remove THEN approved_colors ELSE <<>>))

\* colors = []; if not invert: ... else: ...
reattach(approved_colors, reject_colors, remove, invert) ==
    IF ~invert
    THEN approved_colors \o (IF ~remove THEN reject_colors ELSE <<>>)
    ELSE reject_colors \o (IF ~remove THEN approved_colors ELSE <<>>)

filter_colors(filter, colors, threshold, remove, invert) ==
    LET parts == partition(filter, colors, threshold)
    IN  reattach(parts[1], parts[2], remove, invert)

\* a filter that also leaves its result in the receiver's list
filter_in_place(filter, self, threshold, remove, invert) ==
    LET colors == filter_colors(filter, colors_of(self), threshold, remove, invert)
    IN  /\ call.n < MaxCalls
        /\ lists' = Append([lists EXCEPT ![objs[self]] = colors], colors)
        /\ objs' = Append(objs, Len(lists) + 1)
        /\ made' = Append(made, Made(filter, self, threshold, remove, invert, 0))
        /\ call' = Call(call.n + 1, filter, self, TRUE, <<>>, "ok", Len(objs) + 1, 0)

\* the body shared by filter_transparency, filter_saturation and filter_value
filter_call(filter, self, threshold, remove, invert) ==
    NewObject(filter_colors(filter, colors_of(self), threshold, remove, invert),
              Made(filter, self, threshold, remove, invert, 0),
              Call(call.n + 1, filter, self, TRUE, <<>>, "ok", Len(objs) + 1, 0))

filter_transparency ==
    \E self \in DOMAIN objs : \E threshold \in Thresholds : \E remove, invert \in BOOLEAN :
        filter_call("filter_transparency", self, threshold, remove, invert)

filter_saturation ==
    \E self \in DOMAIN objs : \E threshold \in Thresholds : \E remove, invert \in BOOLEAN :
        filter_call("filter_saturation", self, threshold, remove, invert)

filter_value ==
    \E self \in DOMAIN objs : \E threshold \in Thresholds : \E remove, invert \in BOOLEAN :
        filter_call("filter_value", self, threshold, remove, invert)

(***************************************************************************)
(* Colors.show: color_width = width // len(self.rgb_colors) raises         *)
(* ZeroDivisionError on an empty pool, before anything is drawn or shown.  *)
(***************************************************************************)
show_ok ==
    \E self \in DOMAIN objs : \E width \in Widths :
        /\ Len(rgb_colors(self)) # 0
        /\ call.n < MaxCalls
        /\ call' = Call(call.n + 1, "show", self, TRUE, <<>>, "ok", 0,
                        width \div Len(rgb_colors(self)))
        /\ UNCHANGED <<lists, objs, made>>

show_error ==
    \E self \in DOMAIN objs :
        /\ Len(rgb_colors(self)) = 0
        /\ Raise("show", self, "ZeroDivisionError")

show == show_ok \/ show_error

Next ==
    \/ copy
    \/ run_kmeans
    \/ filter_transparency
    \/ filter_saturation
    \/ filter_value
    \/ show

Spec == Init /\ [][Next]_vars

(***************************************************************************)
(* Vocabulary of the properties.                                           *)
(***************************************************************************)
Filters == {"filter_transparency", "filter_saturation", "filter_value"}

\* The weights never increase from one entry to the next.
NonIncreasing(s) == \A i \in 1..(Len(s) - 1) : s[i][1] >= s[i + 1][1]

\* How many times entry e occurs in s.
Occurrences(e, s) == Cardinality({ i \in DOMAIN s : s[i] = e })

\* s and t hold the same entries the same number of times.
SameEntries(s, t) ==
    /\ Len(s) = Len(t)
    /\ \A i \in DOMAIN s : Occurrences(s[i], s) = Occurrences(s[i], t)

RECURSIVE SumOfWeights(_)
SumOfWeights(s) == IF s = <<>> THEN 0 ELSE Head(s)[1] + SumOfWeights(Tail(s))

\* The feature the filter reads is at least, or exactly, the threshold.
FeatureAtLeast(filter, entry, threshold) ==
    LET f == feature(filter, entry)
    IN  IF f.below THEN f.num > threshold * f.den ELSE f.num >= threshold * f.den

FeatureEquals(filter, entry, threshold) ==
    LET f == feature(filter, entry) IN ~f.below /\ f.num = threshold * f.den

\* The entries of s with the feature at least the threshold, and the others,
\* each in the order of s.
AtLeastPart(filter, s, threshold) ==
    SelectSeq(s, LAMBDA e : FeatureAtLeast(filter, e, threshold))

UnderPart(filter, s, threshold) ==
    SelectSeq(s, LAMBDA e : ~FeatureAtLeast(filter, e, threshold))

\* The pixels of color c reported for one sticker, and for a list of stickers.
RECURSIVE PixelsInSticker(_, _)
PixelsInSticker(c, sticker_colors) ==
    IF sticker_colors = <<>> THEN 0
    ELSE (IF Head(sticker_colors)[2] = c THEN Head(sticker_colors)[1] ELSE 0)
         + PixelsInSticker(c, Tail(sticker_colors))

RECURSIVE PixelsOfColor(_, _)
PixelsOfColor(c, stickers) ==
    IF stickers = <<>> THEN 0
    ELSE PixelsInSticker(c, Head(stickers)) + PixelsOfColor(c, Tail(stickers))

RECURSIVE PixelsInAll(_)
PixelsInAll(stickers) ==
    IF stickers = <<>> THEN 0
    ELSE SumOfWeights(Head(stickers)) + PixelsInAll(Tail(stickers))

(***************************************************************************)
(* C1.  As claimed: every pool any operation produces is non-increasing in *)
(* weight from first to last, the filters re-sorting their output.         *)
(***************************************************************************)
C1_EveryPoolSorted == \A o \in DOMAIN objs : NonIncreasing(colors_of(o))

(***************************************************************************)
(* C1, amended.  A pool produced by the constructor or by run_kmeans is    *)
(* non-increasing in weight; the result of copy, and of a filter called    *)
(* with remove=True, is non-increasing whenever the receiver is.           *)
(***************************************************************************)
C1_SortedWhereTheCodeSorts ==
    \A o \in DOMAIN objs :
        /\ made[o].op \in {"__init__", "run_kmeans"} => NonIncreasing(colors_of(o))
        /\ ( /\ made[o].op = "copy" \/ (made[o].op \in Filters /\ made[o].remove)
             /\ NonIncreasing(colors_of(made[o].self)) )
           => NonIncreasing(colors_of(o))

\* run_kmeans on a pool a filter left out of weight order returned clusters
\* of different weights, heaviest first.
C1_Witness ==
    \E o \in DOMAIN objs :
        /\ made[o].op = "run_kmeans"
        /\ ~NonIncreasing(colors_of(made[o].self))
        /\ Len(colors_of(o)) = 2
        /\ colors_of(o)[1][1] > colors_of(o)[2][1]

(***************************************************************************)
(* C2.  No call changes an existing pool: every object that exists keeps   *)
(* its list, and the list keeps its content, across every step (so across  *)
(* any chain of calls, failed ones included).                              *)
(***************************************************************************)
C2_ReceiverUnchanged ==
    [][\A o \in DOMAIN objs :
          /\ o \in DOMAIN objs'
          /\ objs'[o] = objs[o]
          /\ lists'[objs[o]] = lists[objs[o]]]_vars

\* A filter emptied a copy of a non-empty pool and clustering the result failed.
C2_Witness ==
    /\ call.op = "run_kmeans"
    /\ call.result = "ValueError"
    /\ call.self = 2
    /\ made[2].op \in Filters
    /\ made[2].self = 1
    /\ colors_of(1) # <<>>
    /\ colors_of(2) = <<>>

(***************************************************************************)
(* C3.  A filter called with remove=False returns the receiver's entries,  *)
(* each as many times as the receiver holds it: none dropped, duplicated   *)
(* or altered.                                                             *)
(***************************************************************************)
C3_NothingDroppedWithoutRemove ==
    \A o \in DOMAIN objs :
        (made[o].op \in Filters /\ ~made[o].remove)
            => SameEntries(colors_of(o), colors_of(made[o].self))

\* A filter with remove=False returned the entries in another order.
C3_Witness ==
    \E o \in DOMAIN objs :
        /\ made[o].op \in Filters
        /\ ~made[o].remove
        /\ Len(colors_of(o)) = 3
        /\ colors_of(o) # colors_of(made[o].self)

(***************************************************************************)
(* C4.  A filter called with remove=True returns as many entries as the    *)
(* receiver has with feature >= threshold (invert=False) or with feature   *)
(* < threshold (invert=True); an entry whose feature equals the threshold  *)
(* is kept when invert=False and dropped when invert=True.                 *)
(***************************************************************************)
C4_RemoveKeepsOneSide ==
    \A o \in DOMAIN objs :
        (made[o].op \in Filters /\ made[o].remove) =>
            LET src == colors_of(made[o].self)
                kept == { i \in DOMAIN src :
                            FeatureAtLeast(made[o].op, src[i], made[o].threshold)
                                <=> ~made[o].invert }
            IN  /\ Len(colors_of(o)) = Cardinality(kept)
                /\ \A i \in DOMAIN src :
                      FeatureEquals(made[o].op, src[i], made[o].threshold)
                          => (Occurrences(src[i], colors_of(o)) > 0 <=> ~made[o].invert)

\* A removing filter kept an entry exactly on the threshold and dropped another.
C4_Witness ==
    \E o \in DOMAIN objs :
        /\ made[o].op \in Filters
        /\ made[o].remove
        /\ ~made[o].invert
        /\ Len(colors_of(o)) < Len(colors_of(made[o].self))
        /\ \E i \in DOMAIN colors_of(o) :
              FeatureEquals(made[o].op, colors_of(o)[i], made[o].threshold)

(***************************************************************************)
(* C5.  The same filter with the same threshold and remove=True, called    *)
(* once with invert=False and once with invert=True on the same pool:      *)
(* the two results share no entry, and together they hold each entry of    *)
(* the pool as many times as the pool does.                                *)
(***************************************************************************)
C5_InvertSymmetry ==
    \A a, b \in DOMAIN objs :
        ( /\ made[a].op \in Filters
          /\ made[a].remove
          /\ ~made[a].invert
          /\ made[b] = [made[a] EXCEPT !.invert = TRUE] )
        => LET src == colors_of(made[a].self)
           IN  /\ \A i \in DOMAIN colors_of(a) :
                      Occurrences(colors_of(a)[i], colors_of(b)) = 0
               /\ Len(colors_of(a)) + Len(colors_of(b)) = Len(src)
               /\ \A i \in DOMAIN src :
                      Occurrences(src[i], colors_of(a)) + Occurrences(src[i], colors_of(b))
                          = Occurrences(src[i], src)

\* Both halves of a pool of three entries were produced, neither empty.
C5_Witness ==
    \E a, b \in DOMAIN objs :
        /\ made[a].op \in Filters
        /\ made[a].remove
        /\ ~made[a].invert
        /\ made[b] = [made[a] EXCEPT !.invert = TRUE]
        /\ colors_of(a) # <<>>
        /\ colors_of(b) # <<>>
        /\ Len(colors_of(made[a].self)) = 3

(***************************************************************************)
(* C6.  run_kmeans(k_clusters=k) that succeeds returns exactly k entries,  *)
(* whatever labels the clustering step returned; a cluster without points  *)
(* is emitted with weight 0.                                               *)
(***************************************************************************)
C6_ExactlyKEntries ==
    \A o \in DOMAIN objs :
        made[o].op = "run_kmeans" => Len(colors_of(o)) = made[o].k

\* Two clusters were asked for and one of them received no point.
C6_Witness ==
    \E o \in DOMAIN objs :
        /\ made[o].op = "run_kmeans"
        /\ made[o].k = 2
        /\ Len(colors_of(made[o].self)) >= 2
        /\ \E i \in DOMAIN colors_of(o) : colors_of(o)[i][1] = 0

(***************************************************************************)
(* C7.  The weights of the pool run_kmeans returns add up to the number of *)
(* entries of the receiver.                                                *)
(***************************************************************************)
C7_ClusterWeightsCountEntries ==
    \A o \in DOMAIN objs :
        made[o].op = "run_kmeans"
            => SumOfWeights(colors_of(o)) = Len(colors_of(made[o].self))

\* Two non-empty clusters of a pool whose weights add up to more than its
\* number of entries.
C7_Witness ==
    \E o \in DOMAIN objs :
        /\ made[o].op = "run_kmeans"
        /\ Len(colors_of(o)) = 2
        /\ \A i \in DOMAIN colors_of(o) : colors_of(o)[i][1] > 0
        /\ SumOfWeights(colors_of(made[o].self)) > Len(colors_of(made[o].self))

(***************************************************************************)
(* C8.  The pool the constructor builds from a list of stickers has one    *)
(* entry per color some sticker reports, weighing the color's pixel counts *)
(* summed over the stickers; the weights add up to the pixels of all       *)
(* the stickers.                                                           *)
(***************************************************************************)
C8_ConstructionWeights ==
    (call.op = "__init__" /\ ~call.none) =>
        LET pool == colors_of(call.ret)
        IN  /\ \A c \in Palette :
                  IF PixelsOfColor(c, call.stickers) > 0
                  THEN Cardinality({ i \in DOMAIN pool : pool[i][2] = c }) = 1
                       /\ \A i \in DOMAIN pool :
                             pool[i][2] = c => pool[i][1] = PixelsOfColor(c, call.stickers)
                  ELSE \A i \in DOMAIN pool : pool[i][2] # c
            /\ \A i \in DOMAIN pool : pool[i][2] \in Palette
            /\ SumOfWeights(pool) = PixelsInAll(call.stickers)

\* Two stickers of one color each, the same color, 2 pixels each: one entry
\* of weight 4.
C8_Witness ==
    /\ call.op = "__init__"
    /\ ~call.none
    /\ Len(call.stickers) = 2
    /\ Len(call.stickers[1]) = 1
    /\ Len(call.stickers[2]) = 1
    /\ Len(colors_of(call.ret)) = 1
    /\ colors_of(call.ret)[1][1] = 4

(***************************************************************************)
(* C9.  A filter called with remove=False returns the entries with feature *)
(* >= threshold followed by those with feature < threshold (the two groups *)
(* swapped when invert=True), each group in the receiver's order.          *)
(***************************************************************************)
C9_RejectedMovedToTheEnd ==
    \A o \in DOMAIN objs :
        (made[o].op \in Filters /\ ~made[o].remove) =>
            LET src == colors_of(made[o].self)
                front == AtLeastPart(made[o].op, src, made[o].threshold)
                back == UnderPart(made[o].op, src, made[o].threshold)
            IN  colors_of(o) = IF made[o].invert THEN back \o front ELSE front \o back

\* The heaviest entry of three was moved behind the two others, which kept
\* their order.
C9_Witness ==
    \E o \in DOMAIN objs :
        /\ made[o].op \in Filters
        /\ ~made[o].remove
        /\ ~made[o].invert
        /\ Len(colors_of(o)) = 3
        /\ colors_of(o)[3] = colors_of(made[o].self)[1]
        /\ colors_of(o)[3][1] > colors_of(o)[1][1]
        /\ colors_of(o)[1] = colors_of(made[o].self)[2]
        /\ colors_of(o)[2] = colors_of(made[o].self)[3]

(***************************************************************************)
(* C10.  show() on an empty pool ends in an explicit degenerate-display    *)
(* error, not in the division width // 0.                                  *)
(***************************************************************************)
C10_ShowOnEmptyPoolRaisesDisplayError ==
    (call.op = "show" /\ colors_of(call.self) = <<>>)
        => call.result = "DegenerateDisplayError"
====
